---- MODULE Spec2Model ----
(***************************************************************************)
(* Model of the Deel integration service: the configuration singleton      *)
(* (environment.ts), the module wiring (deel.module.ts, deel.sdk.ts) and   *)
(* the webhook signature gate DeelController.handleWebhook.                *)
(*                                                                         *)
(* A JavaScript string is a sequence of code units (naturals); a Buffer is *)
(* a sequence of bytes.                                                    *)
(***************************************************************************)
EXTENDS Integers, Sequences, FiniteSets, TLC

\* Bound of the model: the number of webhook deliveries in one behaviour.
MaxRequests == 2

\* Bound of the model: the number of handleWebhook invocations in flight at
\* the same time.
MaxInvocations == 2

\* Bound of the model: the number of calls of Environment.getInstance() that
\* the callers of the class make in one behaviour of SpecEnvironment.
MaxCalls == 3

\* Bound of the model: the value at which the per-invocation counters of
\* lookups, HMACs and comparisons stop counting.
MaxCount == 2
MaxContractRequests == 2

----------------------------------------------------------------------------
(* Text literals                                                           *)

\* The code unit of a character written as a one-character string.
CodePoint(c) ==
  CASE c = " " -> 32  [] c = "\"" -> 34 [] c = "," -> 44 [] c = "." -> 46
    [] c = "0" -> 48  [] c = "1" -> 49  [] c = "2" -> 50 [] c = "3" -> 51
    [] c = ":" -> 58  [] c = "E" -> 69  [] c = "G" -> 71
    [] c = "O" -> 79  [] c = "P" -> 80  [] c = "S" -> 83 [] c = "T" -> 84
    [] c = "a" -> 97  [] c = "b" -> 98  [] c = "c" -> 99 [] c = "d" -> 100
    [] c = "e" -> 101 [] c = "g" -> 103 [] c = "i" -> 105 [] c = "k" -> 107
    [] c = "n" -> 110 [] c = "o" -> 111 [] c = "p" -> 112 [] c = "r" -> 114
    [] c = "s" -> 115 [] c = "t" -> 116 [] c = "v" -> 118
    [] c = "{" -> 123 [] c = "}" -> 125
    [] c = "/" -> 47  [] c = "A" -> 65  [] c = "B" -> 66 [] c = "f" -> 102
    [] c = "h" -> 104 [] c = "l" -> 108 [] c = "m" -> 109

\* A string literal, written as a tuple of one-character strings.
Str(s) == [i \in 1..Len(s) |-> CodePoint(s[i])]

----------------------------------------------------------------------------
(* JSON: the body parser fills request.body with the parsed body, and the  *)
(* handler serialises it again with JSON.stringify.  Modelled on objects   *)
(* whose members are strings without escapes and non-negative decimals.    *)

IsWs(c) == c \in {9, 10, 13, 32}
IsDigit(c) == c \in 48..57

RECURSIVE SkipWs(_, _)
SkipWs(t, i) == IF i <= Len(t) /\ IsWs(t[i]) THEN SkipWs(t, i + 1) ELSE i

\* Index of the quote closing the string whose first character is at i.
RECURSIVE ScanString(_, _)
ScanString(t, i) == IF t[i] = 34 THEN i ELSE ScanString(t, i + 1)

\* Index of the first non-digit at or after i.
RECURSIVE ScanDigits(_, _)
ScanDigits(t, i) == IF i <= Len(t) /\ IsDigit(t[i]) THEN ScanDigits(t, i + 1) ELSE i

\* The number written by the digits t[i..j-1].
RECURSIVE DecimalValue(_, _, _)
DecimalValue(t, i, j) ==
  IF j <= i THEN 0 ELSE 10 * DecimalValue(t, i, j - 1) + (t[j - 1] - 48)

\* The fraction digits d without their trailing zeros (1.50 and 1.5 are the
\* same number).
RECURSIVE StripZeros(_)
StripZeros(d) ==
  IF d # <<>> /\ d[Len(d)] = 48 THEN StripZeros(SubSeq(d, 1, Len(d) - 1)) ELSE d

\* A parsed value: a string (t = "str", s its characters) or a number
\* (t = "num", n its integer part, s its significant fraction digits).
\* Returns the value and the index after it.
ParseValue(t, i) ==
  IF t[i] = 34
    THEN LET j == ScanString(t, i + 1)
         IN  [val |-> [t |-> "str", n |-> 0, s |-> SubSeq(t, i + 1, j - 1)],
              next |-> j + 1]
    ELSE LET j == ScanDigits(t, i)
             k == IF j <= Len(t) /\ t[j] = 46 THEN ScanDigits(t, j + 1) ELSE j
             frac == IF k > j THEN StripZeros(SubSeq(t, j + 1, k - 1)) ELSE <<>>
         IN  [val |-> [t |-> "num", n |-> DecimalValue(t, i, j), s |-> frac],
              next |-> k]

\* obj[key] = val on an object kept as its members in insertion order: an
\* existing key keeps its place and takes the new value.
SetProperty(obj, key, val) ==
  IF \E m \in 1..Len(obj) : obj[m].key = key
    THEN [m \in 1..Len(obj) |->
            IF obj[m].key = key THEN [key |-> key, val |-> val] ELSE obj[m]]
    ELSE Append(obj, [key |-> key, val |-> val])

\* The members of the object text from index i (just before a key) on.
RECURSIVE ParseMembers(_, _, _)
ParseMembers(t, i, obj) ==
  LET k0 == SkipWs(t, i)
      k1 == ScanString(t, k0 + 1)
      key == SubSeq(t, k0 + 1, k1 - 1)
      c == SkipWs(t, k1 + 1)
      v == ParseValue(t, SkipWs(t, c + 1))
      e == SkipWs(t, v.next)
      obj2 == SetProperty(obj, key, v.val)
  IN  IF t[e] = 44 THEN ParseMembers(t, e + 1, obj2) ELSE obj2

\* JSON.parse of an object text.
JSONparse(t) ==
  LET i == SkipWs(t, 1)
      j == SkipWs(t, i + 1)
  IN  IF t[j] = 125 THEN <<>> ELSE ParseMembers(t, j, <<>>)

\* Whether a property key is an array index ("0", "7", "12", not "01"): such
\* keys are enumerated first, in ascending numeric order.
IsArrayIndex(key) ==
  /\ key # <<>>
  /\ \A i \in 1..Len(key) : IsDigit(key[i])
  /\ (Len(key) = 1 \/ key[1] # 48)

\* The members of obj that satisfy / do not satisfy IsArrayIndex, in order.
RECURSIVE SelectMembers(_, _)
SelectMembers(obj, index) ==
  IF obj = <<>> THEN <<>>
  ELSE LET rest == SelectMembers(Tail(obj), index)
       IN  IF IsArrayIndex(Head(obj).key) = index THEN <<Head(obj)>> \o rest ELSE rest

\* members sorted by the numeric value of their (array index) keys.
RECURSIVE SortByIndex(_)
SortByIndex(ms) ==
  IF ms = <<>> THEN <<>>
  ELSE LET Num(m) == DecimalValue(m.key, 1, Len(m.key) + 1)
           lo == CHOOSE i \in 1..Len(ms) : \A j \in 1..Len(ms) : Num(ms[i]) <= Num(ms[j])
           others == [j \in 1..(Len(ms) - 1) |-> IF j < lo THEN ms[j] ELSE ms[j + 1]]
       IN  <<ms[lo]>> \o SortByIndex(others)

\* The order in which JSON.stringify visits the properties of an object.
OwnKeysOrder(obj) == SortByIndex(SelectMembers(obj, TRUE)) \o SelectMembers(obj, FALSE)

RECURSIVE DecimalDigits(_)
DecimalDigits(n) ==
  IF n < 10 THEN <<48 + n>> ELSE DecimalDigits(n \div 10) \o <<48 + (n % 10)>>

StringifyValue(v) ==
  IF v.t = "str" THEN <<34>> \o v.s \o <<34>>
  ELSE DecimalDigits(v.n) \o (IF v.s = <<>> THEN <<>> ELSE <<46>> \o v.s)

RECURSIVE StringifyMembers(_)
StringifyMembers(ms) ==
  IF ms = <<>> THEN <<>>
  ELSE <<34>> \o Head(ms).key \o <<34, 58>> \o StringifyValue(Head(ms).val)
         \o (IF Len(ms) > 1 THEN <<44>> \o StringifyMembers(Tail(ms)) ELSE <<>>)

\* JSON.stringify of a parsed object: no whitespace, keys in OwnKeysOrder.
JSONstringify(obj) == <<123>> \o StringifyMembers(OwnKeysOrder(obj)) \o <<125>>

\* Request bodies as they arrive on the wire.
BodyCanonical == Str(<<"{", "\"", "a", "\"", ":", "1", "}">>)
BodySpaced    == Str(<<"{", " ", "\"", "a", "\"", ":", " ", "1", " ", "}">>)
BodyDecimal   == Str(<<"{", "\"", "a", "\"", ":", "1", ".", "0", "}">>)
BodyReordered == Str(<<"{", "\"", "2", "\"", ":", "1", ",", "\"", "1", "\"", ":", "2", "}">>)
BodyEvent     ==
  Str(<<"{", "\"", "e", "v", "e", "n", "t", "\"", ":", "\"", "c", "o", "n", "t", "r",
        "a", "c", "t", ".", "s", "i", "g", "n", "e", "d", "\"", "}">>)
RawBodies == <<BodyCanonical, BodySpaced, BodyDecimal, BodyReordered, BodyEvent>>

----------------------------------------------------------------------------
(* Buffers and the crypto module                                           *)

\* The value of const x = v, written Only({e : x \in {v}}) where e uses x:
\* v is computed once, however often e uses it.
Only(S) == CHOOSE r \in S : TRUE

\* The UTF-8 bytes of the character c.
Utf8(c) ==
  IF c < 128 THEN <<c>>
  ELSE IF c < 2048 THEN <<192 + (c \div 64), 128 + (c % 64)>>
  ELSE <<224 + (c \div 4096), 128 + ((c \div 64) % 64), 128 + (c % 64)>>

\* The UTF-8 bytes of the characters i..j of str, in order.  The range is
\* halved at each call, which keeps the evaluation shallow.
RECURSIVE Utf8From(_, _, _)
Utf8From(str, i, j) ==
  IF i > j THEN <<>>
  ELSE IF i = j THEN Utf8(str[i])
  ELSE Utf8From(str, i, (i + j) \div 2) \o Utf8From(str, (i + j) \div 2 + 1, j)

\* Buffer.from(string): the UTF-8 bytes of the string.
BufferFrom(str) == Only({Utf8From(s, 1, Len(s)) : s \in {str}})

\* The size of a SHA-256 digest, in bytes.
DigestBytes == 32

\* The hash function is the runtime's.  It is modelled by a digest of the
\* same shape, DigestBytes bytes computed from every byte of the input, that
\* has no collision on the inputs of the model (see DigestCollisionFree).
\* Absorb(h, bytes, i, j) is h after the bytes i..j, taken in order.
RECURSIVE Absorb(_, _, _, _)
Absorb(h, bytes, i, j) ==
  IF i > j THEN h
  ELSE IF i = j THEN (h * 257 + bytes[i] + 1) % 65521
  ELSE Only({Absorb(half, bytes, (i + j) \div 2 + 1, j) :
               half \in {Absorb(h, bytes, i, (i + j) \div 2)}})

Sha256(bytes) ==
  Only({[i \in 1..DigestBytes |->
           IF i = 1 THEN h \div 256
           ELSE IF i = 2 THEN h % 256
           ELSE (h * i + i * i) % 256] : h \in {Absorb(17, b, 1, Len(b)) : b \in {bytes}}})

\* createHmac('sha256', key).update(message).digest(): the inner hash of the
\* padded key and the message, hashed again under the outer padded key.
Hmac(key, message) ==
  Only({Sha256(in[1] \o <<92>> \o in[2]) :
          in \in {<<k, Sha256(k \o <<54>> \o BufferFrom(message))>> :
                    k \in {BufferFrom(key)}}})

HexDigit(n) == IF n < 10 THEN 48 + n ELSE 87 + n

\* digest('hex'): two lowercase hexadecimal digits per byte.
Hex(bytes) ==
  Only({[i \in 1..(2 * Len(digest)) |->
           IF i % 2 = 1 THEN HexDigit(digest[(i + 1) \div 2] \div 16)
           ELSE HexDigit(digest[i \div 2] % 16)] : digest \in {bytes}})

\* crypto.timingSafeEqual(a, b): throws a RangeError when the byte lengths
\* differ, and otherwise compares every byte.
\* steps is the number of byte pairs it looks at: all of them, wherever the
\* buffers differ.
timingSafeEqual(a, b) ==
  Only({[threw |-> Len(buf[1]) # Len(buf[2]),
         equal |-> Len(buf[1]) = Len(buf[2])
                     /\ \A i \in 1..Len(buf[1]) : buf[1][i] = buf[2][i],
         steps |-> IF Len(buf[1]) # Len(buf[2]) THEN 0 ELSE Len(buf[1])] :
        buf \in {<<a, b>>}})

----------------------------------------------------------------------------
(* Configuration                                                           *)

\* A string that may be undefined (an unset variable, an absent header).
Undefined == [defined |-> FALSE, str |-> <<>>]
Defined(str) == [defined |-> TRUE, str |-> str]

\* JavaScript truthiness of a string | undefined.
Truthy(v) == v.defined /\ v.str # <<>>

KeyA == Str(<<"t", "o", "p", "s", "e", "c", "r", "e", "t">>)
KeyB == Str(<<"k", "2">>)

\* The .env file in the working directory: missing, or a list of settings
\* that gives DEEL_WEBHOOK_SIGNING_KEY a value or leaves it out.
EnvFiles ==
  { [exists |-> FALSE, key |-> Undefined],
    [exists |-> TRUE,  key |-> Undefined],
    [exists |-> TRUE,  key |-> Defined(KeyA)] }

\* The values DEEL_WEBHOOK_SIGNING_KEY can have in the environment the
\* process is started with.
EnvValues == {Undefined, Defined(<<>>), Defined(KeyA), Defined(KeyB)}

\* process.loadEnvFile(): throws when there is no .env file; a variable that
\* is already set in process.env keeps its value.
loadEnvFile(env, file) ==
  [threw |-> ~file.exists,
   env |-> IF file.exists /\ ~env.defined /\ file.key.defined THEN file.key ELSE env]

\* A faulty singleton that stores the instance before the constructor has
\* loaded the .env file: Environment.instance is set although the load threw.
EnvironmentGetInstanceStoredFirst(inst, env, file) ==
  IF ~inst
    THEN [threw |-> loadEnvFile(env, file).threw, instance |-> TRUE,
          env |-> loadEnvFile(env, file).env, loads |-> 1]
    ELSE [threw |-> FALSE, instance |-> inst, env |-> env, loads |-> 0]

\* Environment.getInstance(): the instance is constructed, and the .env file
\* loaded, only while no instance is stored.  inst is whether
\* Environment.instance is set.
\* loads is the number of calls of process.loadEnvFile() it makes.
EnvironmentGetInstance(inst, env, file) ==
  IF ~inst
    THEN LET l == loadEnvFile(env, file)
         IN  [threw |-> l.threw, instance |-> ~l.threw, env |-> l.env, loads |-> 1]
    ELSE [threw |-> FALSE, instance |-> inst, env |-> env, loads |-> 0]

\* A faulty getter that falls back on a built-in key, as DeelAPIUrl falls
\* back on a built-in URL.
DeelWebhookSigningKeyWithDefault(env) == IF Truthy(env) THEN env.str ELSE KeyA

\* get DeelWebhookSigningKey(): process.env.DEEL_WEBHOOK_SIGNING_KEY || ''.
DeelWebhookSigningKey(env) == IF Truthy(env) THEN env.str ELSE <<>>

\* A faulty getter that stores what it returns, as
\* process.env.DEEL_WEBHOOK_SIGNING_KEY ||= '' does.
ReadSigningKeyStoring(env) ==
  [key |-> DeelWebhookSigningKey(env), env |-> Defined(DeelWebhookSigningKey(env))]

\* Environment.getInstance().DeelWebhookSigningKey: the key the getter
\* returns, and process.env after the read, which is process.env before it.
ReadSigningKey(env) == [key |-> DeelWebhookSigningKey(env), env |-> env]

TokenA == Str(<<"t", "k", "A">>)
TokenB == Str(<<"t", "k", "B">>)
UrlSandbox == Str(<<"h", "t", "t", "p", ":", "/", "/", "s", "b">>)
UrlFile == Str(<<"h", "t", "t", "p", ":", "/", "/", "f">>)
UrlDefault ==
  Str(<<"h", "t", "t", "p", "s", ":", "/", "/", "a", "p", "i", ".", "d", "e", "e", "l",
        ".", "c", "o", "m", "/", "v", "1">>)

\* DEEL_ACCESS_TOKEN and DEEL_API_URL when neither is set.
NoApiSettings == [token |-> Undefined, url |-> Undefined]

\* The values the two variables can have in the environment the process is
\* started with, and the values the .env file can give them.
ApiEnvValues ==
  [token : {Undefined, Defined(<<>>), Defined(TokenA)},
   url : {Undefined, Defined(<<>>), Defined(UrlSandbox)}]
ApiFileValues ==
  [token : {Undefined, Defined(TokenB)}, url : {Undefined, Defined(UrlFile)}]

\* The two variables after process.loadEnvFile() has or has not read the
\* settings of the .env file: a variable that is already set keeps its value.
LoadedApiEnv(api, settings, loaded) ==
  IF loaded
    THEN [token |-> IF api.token.defined THEN api.token ELSE settings.token,
          url |-> IF api.url.defined THEN api.url ELSE settings.url]
    ELSE api

\* get DeelAccessToken(): process.env.DEEL_ACCESS_TOKEN || ''.
DeelAccessToken(api) == IF Truthy(api.token) THEN api.token.str ELSE <<>>

\* get DeelAPIUrl(): process.env.DEEL_API_URL || 'https://api.deel.com/v1'.
DeelAPIUrl(api) == IF Truthy(api.url) THEN api.url.str ELSE UrlDefault

----------------------------------------------------------------------------
(* DeelController.handleWebhook                                            *)

POST == Str(<<"P", "O", "S", "T">>)
GET == Str(<<"G", "E", "T">>)

\* The methods of the requests sent to deel/webhook.
Methods == <<POST, GET>>

\* A faulty route that takes every method, as @All('webhook') does.
RouteMatchesAll(method) == TRUE

\* @Post('webhook'): the router calls handleWebhook for POST requests only.
RouteMatches(method) == method = POST

\* A faulty header check, signature === undefined, that lets the empty
\* header through.
SignatureMissingUndefinedOnly(signature) == ~signature.defined

\* A faulty header check that catches the empty header only.
SignatureMissingEmptyOnly(signature) == signature.defined /\ signature.str = <<>>

\* if (!signature)
SignatureMissing(signature) == ~Truthy(signature)

\* A faulty secret check that no key fails (the getter never returns
\* undefined).
SigningKeyMissingUndefinedOnly(signingKey) == FALSE

\* if (!signingKey)
SigningKeyMissing(signingKey) == signingKey = <<>>

\* 'POST' + JSON.stringify(rawBody): the message the handler authenticates.
SignedMessage(rawBody) == POST \o JSONstringify(rawBody)

\* createHmac('sha256', signingKey).update('POST' + JSON.stringify(rawBody))
\*   .digest('hex')
ExpectedSignature(signingKey, rawBody) ==
  Hex(Hmac(signingKey, SignedMessage(rawBody)))

\* A faulty comparison that accepts any header of the right length.
CompareLengthsOnly(signature, expectedSignature) ==
  [threw |-> Len(BufferFrom(signature)) # Len(BufferFrom(expectedSignature)),
   equal |-> Len(BufferFrom(signature)) = Len(BufferFrom(expectedSignature)),
   steps |-> 0]

\* A faulty comparison, signature === expectedSignature done byte by byte:
\* it stops at the first pair of bytes that differ.
CompareEarlyExit(signature, expectedSignature) ==
  LET a == BufferFrom(signature)
      b == BufferFrom(expectedSignature)
      n == IF Len(a) < Len(b) THEN Len(a) ELSE Len(b)
      differ == {i \in 1..n : a[i] # b[i]}
  IN  [threw |-> FALSE,
       equal |-> a = b,
       steps |-> IF differ = {} THEN n ELSE CHOOSE i \in differ : \A j \in differ : i <= j]

\* String.prototype.toUpperCase() on the characters of the model.
ToUpperCase(g) == [i \in 1..Len(g) |-> IF g[i] \in 97..122 THEN g[i] - 32 ELSE g[i]]

\* A faulty comparison that takes hexadecimal digits of either case for the
\* same.
CompareIgnoringCase(signature, expectedSignature) ==
  timingSafeEqual(BufferFrom(ToUpperCase(signature)),
                  BufferFrom(ToUpperCase(expectedSignature)))

\* The comparison of the header with the expected signature.
CompareSignatures(signature, expectedSignature) ==
  timingSafeEqual(BufferFrom(signature), BufferFrom(expectedSignature))

\* A faulty log line that shows the header next to the payload.
ValidWebhookLogWithSignature(rawBody, signature) ==
  <<rawBody,
    <<[key |-> Str(<<"s", "i", "g">>), val |-> [t |-> "str", n |-> 0, s |-> signature]]>> >>

\* console.log('Received valid webhook:', rawBody): the values written
\* after the label.
ValidWebhookLog(rawBody, signature) == <<rawBody>>

\* A faulty reason that tells whether the header starts as the expected
\* signature does.
InvalidSignatureMessageWithHint(signature, expectedSignature) ==
  IF signature[1] = expectedSignature[1]
    THEN "Invalid signature (partial match)"
    ELSE "Invalid signature"

\* new UnauthorizedException('Invalid signature'): the reason given for a
\* header that is not the expected signature.
InvalidSignatureMessage(signature, expectedSignature) == "Invalid signature"

\* How an invocation ends: it returns, or throws an exception of a class
\* with a message.
Returned == [kind |-> "returned", message |-> ""]
Throw(class, message) == [kind |-> class, message |-> message]

\* One run of handleWebhook on request req, with Environment.instance = inst,
\* process.env = env and the .env file file: how it ends, the configuration
\* it leaves, the lines it logged, and what it did on the way: the number of
\* calls of Environment.getInstance() (lookups) and of process.loadEnvFile()
\* (loads), the signing key it read
\* (key), the number of HMACs it computed (hmacs), the message it gave to
\* update() (signed), the number of comparisons (compares) and the byte
\* pairs they looked at (steps).
HandleWebhookRun(req, inst, env, file) ==
  LET signature == req.signature
      quiet(end, i, e, l, k, n, c) ==
        [end |-> end, instance |-> i, env |-> e, lookups |-> l, key |-> k,
         hmacs |-> n,
         signed |-> IF n = 0 THEN <<>> ELSE SignedMessage(req.body),
         compares |-> n, steps |-> c,
         logged |-> <<>>,
         loads |-> IF l = 0 THEN 0 ELSE EnvironmentGetInstance(inst, env, file).loads]
  IN  IF SignatureMissing(signature)
        THEN quiet(Throw("UnauthorizedException", "Missing signature header"),
                   inst, env, 0, <<>>, 0, 0)
      ELSE
      LET rawBody == req.body
          got == EnvironmentGetInstance(inst, env, file)
      IN  IF got.threw
            THEN quiet(Throw("Error", "ENOENT"), got.instance, got.env, 1, <<>>, 0, 0)
          ELSE
          LET read == ReadSigningKey(got.env)
              signingKey == read.key
          IN  IF SigningKeyMissing(signingKey)
                THEN quiet(Throw("InternalServerErrorException",
                                 "Webhook signing key not configured"),
                           got.instance, read.env, 1, signingKey, 0, 0)
              ELSE
              Only({
                IF isValid.threw
                  THEN quiet(Throw("RangeError",
                                   "Input buffers must have the same byte length"),
                             got.instance, read.env, 1, signingKey, 1, isValid.steps)
                ELSE IF ~isValid.equal
                  THEN quiet(Throw("UnauthorizedException",
                                   InvalidSignatureMessage(signature.str, expectedSignature)),
                             got.instance, read.env, 1, signingKey, 1, isValid.steps)
                ELSE [end |-> Returned, instance |-> got.instance, env |-> read.env,
                      lookups |-> 1, key |-> signingKey,
                      hmacs |-> 1, signed |-> SignedMessage(rawBody),
                      compares |-> 1, steps |-> isValid.steps,
                      logged |-> ValidWebhookLog(rawBody, signature.str),
                      loads |-> got.loads] :
                  <<expectedSignature, isValid>> \in
                    {<<x, CompareSignatures(signature.str, x)>> :
                       x \in {ExpectedSignature(signingKey, rawBody)}}})

----------------------------------------------------------------------------
(* The senders of webhook deliveries                                       *)

\* What a sender computes for body text under key: the lowercase hex
\* HMAC-SHA256 of the method followed by the text.
Sign(method, text, key) == Hex(Hmac(key, method \o text))

\* Bit k of character c inverted.
FlipBit(c, k) ==
  LET p == 2 ^ k IN IF (c \div p) % 2 = 1 THEN c - p ELSE c + p

FlipBitAt(g, pos, k) == [g EXCEPT ![pos] = FlipBit(@, k)]

\* g with its final hexadecimal digit replaced by another one.
ChangeFinalDigit(g) == [g EXCEPT ![Len(g)] = IF @ = 48 THEN 49 ELSE 48]

\* g with every other character in upper case.
MixedCase(g) == [i \in 1..Len(g) |-> IF i % 2 = 1 THEN ToUpperCase(<<g[i]>>)[1] ELSE g[i]]

\* The signatures a header can carry that derive from a signature g: g
\* itself, g with one bit of its last character inverted, with its final
\* digit changed, in upper case, one character short, one character long,
\* a 63-character string whose UTF-8 encoding has as many bytes as g, and g
\* in mixed case.
Tampered(good) ==
  Only({<<g, ChangeFinalDigit(g), ToUpperCase(g),
          SubSeq(g, 1, Len(g) - 1), g \o <<48>>,
          SubSeq(FlipBitAt(g, 1, 7), 1, Len(g) - 1)>>
          \o [k \in 1..8 |-> FlipBitAt(g, Len(g), k - 1)]
          \o <<MixedCase(g)>> : g \in {good}})

\* The keys a sender may sign with: the two keys of the model and the empty
\* key.
SenderKeys == <<KeyA, KeyB, <<>> >>

\* The HTTP parser hands over a header value only if it holds no control
\* character, and without the spaces around it.
Deliverable(signature) ==
  \A i \in 1..Len(signature.str) : signature.str[i] > 32 /\ signature.str[i] # 127

AllZero == [i \in 1..(2 * DigestBytes) |-> 48]

\* The values of the x-deel-signature header that can reach the controller
\* with the body text wire.
SignatureHeaders(wire) ==
  LET DefinedAll(gs) == [i \in 1..Len(gs) |-> Defined(gs[i])]
      OfKey(k) == DefinedAll(Tampered(Sign(POST, wire, k)))
                    \o <<Defined(Sign(POST, JSONstringify(JSONparse(wire)), k))>>
  IN  SelectSeq(<<Undefined, Defined(<<>>), Defined(AllZero)>>
                  \o OfKey(SenderKeys[1]) \o OfKey(SenderKeys[2]) \o OfKey(SenderKeys[3]),
                Deliverable)

\* A POST request as the controller receives it: the method, the header, the
\* body text as sent (wire) and request.body, which the body parser made of
\* it.
Request(signature, wire) ==
  [method |-> POST, signature |-> signature, wire |-> wire, body |-> JSONparse(wire)]

\* The requests of the model: Requests[b][h] carries body RawBodies[b] and the
\* h-th header that can come with it.
Requests ==
  [b \in 1..Len(RawBodies) |->
     Only({[h \in 1..Len(hs) |-> Request(hs[h], RawBodies[b])] :
           hs \in {SignatureHeaders(RawBodies[b])}})]

NoRequest == [method |-> <<>>, signature |-> Undefined, wire |-> <<>>, body |-> <<>>]
NoResponse == [kind |-> "none", message |-> ""]
NoWork == [lookups |-> 0, key |-> <<>>, compares |-> 0, steps |-> 0]

----------------------------------------------------------------------------
(* The process                                                             *)

VARIABLES
  phase,        \* "boot": modules are being loaded; "serving"; "crashed"
  envFile,      \* the .env file read by process.loadEnvFile (environment.ts:5)
  processEnv,   \* process.env.DEEL_WEBHOOK_SIGNING_KEY (environment.ts:24)
  instance,     \* whether Environment.instance is set (environment.ts:2)
  sdkInstance,  \* whether DeelSDK.instance is set (deel.sdk.ts)
  request,      \* the latest webhook request (deel.controller.ts:24)
  response,     \* how its handling ended: returned, or the exception thrown
  hmacCalls,    \* the number of HMACs computed while handling it (:37-40)
  signedMessage,\* the message given to update() while handling it (:39)
  log,          \* the payloads written by console.log, oldest first (:52)
  nreq,         \* the number of webhook requests handled
  refused,      \* the methods of the requests the router did not dispatch (:23)
  work,         \* what else the latest invocation did: see HandleWebhookRun
  loadedEnv,    \* process.env.DEEL_WEBHOOK_SIGNING_KEY as the first
                \* Environment.getInstance() left it
  inv,          \* the handleWebhook invocations in flight, each with its
                \* position in the code and its local variables
  envUse,       \* the calls of Environment.getInstance() so far (calls), the
                \* calls of process.loadEnvFile() they made (loads), and
                \* whether the latest call threw
  apiFile,      \* what the .env file gives DEEL_ACCESS_TOKEN and DEEL_API_URL
  apiEnv,       \* process.env.DEEL_ACCESS_TOKEN and process.env.DEEL_API_URL
                \* (environment.ts:16, :20)
  sdk,          \* DeelSDK.instance and the configuration of its client: see
                \* NoSdk
  contracts     \* the GET deel/contracts requests so far: see NoContracts

vars == <<phase, envFile, processEnv, instance, sdkInstance, request, response,
          hmacCalls, signedMessage, log, nreq, refused, work, loadedEnv, inv, envUse,
          apiFile, apiEnv, sdk, contracts>>

\* Environment.getInstance() has not been called.
NoEnvUse == [calls |-> 0, loads |-> 0, threw |-> FALSE]

\* envUse after lookups more calls that made loads loads, the last of which
\* threw or did not.
EnvUsed(use, lookups, loads, threw) ==
  IF lookups = 0 THEN use
  ELSE [calls |-> use.calls + lookups, loads |-> use.loads + loads, threw |-> threw]

\* An invocation slot before its request has come in.
Idle ==
  [pc |-> "idle", b |-> 0, h |-> 0, signingKey |-> <<>>, expected |-> <<>>,
   seen |-> <<>>, end |-> NoResponse, lookups |-> 0, hmacs |-> 0, compares |-> 0]

\* DeelSDK.getInstance() has not been called: calls counts its calls, built
\* the DeelSDK objects constructed (they are numbered from 1), stored is the
\* number of the one in DeelSDK.instance (0: none), returned the numbers of
\* those the calls returned, and auth and server are the values passed to
\* deel.auth() and to client.server(), oldest first.
NoSdk ==
  [calls |-> 0, built |-> 0, stored |-> 0, returned |-> {}, auth |-> <<>>, server |-> <<>>]

\* No GET deel/contracts request has come in: requests counts them, sdkCalls
\* the calls of client.getContractList(), errors holds what console.error
\* was given, oldest first, outcome is what the latest call of
\* client.getContractList() did and response how the latest request ended.
NoContracts ==
  [requests |-> 0, sdkCalls |-> 0, errors |-> <<>>,
   outcome |-> [kind |-> "none", value |-> <<>>, error |-> [name |-> "", message |-> ""]],
   response |-> [kind |-> "none", value |-> <<>>, message |-> <<>>]]

\* The process before it has loaded any module.
InitProcess ==
  /\ phase = "boot"
  /\ envFile \in EnvFiles
  /\ processEnv \in EnvValues
  /\ instance = FALSE
  /\ sdkInstance = FALSE
  /\ request = NoRequest
  /\ response = NoResponse
  /\ hmacCalls = 0
  /\ signedMessage = <<>>
  /\ log = <<>>
  /\ nreq = 0
  /\ refused = {}
  /\ work = NoWork
  /\ loadedEnv = Undefined
  /\ inv = [i \in 1..MaxInvocations |-> Idle]
  /\ envUse = NoEnvUse
  /\ sdk = NoSdk
  /\ contracts = NoContracts

\* The webhook reads neither DEEL_ACCESS_TOKEN nor DEEL_API_URL: its
\* specifications start with both unset.
Init ==
  /\ InitProcess
  /\ apiFile = NoApiSettings
  /\ apiEnv = NoApiSettings

\* DeelSDK.getInstance(): the first call constructs the DeelSDK, whose field
\* initialiser calls Environment.getInstance().
\* A faulty getInstance without the test of DeelSDK.instance: every call
\* constructs a DeelSDK.
DeelSDKGetInstanceEveryTime(stored, inst, env, file) ==
  LET got == EnvironmentGetInstance(inst, env, file)
  IN  [threw |-> got.threw, sdk |-> ~got.threw,
       instance |-> got.instance, env |-> got.env,
       lookups |-> 1, loads |-> got.loads, built |-> 1]

\* built is the number of DeelSDK objects it constructs.
DeelSDKGetInstance(stored, inst, env, file) ==
  IF ~stored
    THEN LET got == EnvironmentGetInstance(inst, env, file)
         IN  [threw |-> got.threw, sdk |-> ~got.threw,
              instance |-> got.instance, env |-> got.env,
              lookups |-> 1, loads |-> got.loads, built |-> 1]
    ELSE [threw |-> FALSE, sdk |-> stored, instance |-> inst, env |-> env,
          lookups |-> 0, loads |-> 0, built |-> 0]

\* The DeelSDK constructor, after the field initialiser:
\* this.client = deel.auth(DeelAccessToken); this.client.server(DeelAPIUrl).
\* deel is the one client of the @api/deel module, and auth() returns it.
DeelSDKConstructor(s, api) ==
  [s EXCEPT !.auth = Append(@, DeelAccessToken(api)),
            !.server = Append(@, DeelAPIUrl(api))]

\* sdk after a call of DeelSDK.getInstance() that did what got says, with
\* the two variables as api when the constructor read them.
SdkUsed(s, got, api) ==
  LET made == got.built = 1 /\ ~got.threw
      now == IF made THEN s.built + 1 ELSE s.stored
      configured == IF made THEN DeelSDKConstructor(s, api) ELSE s
  IN  [configured EXCEPT !.calls = @ + 1,
                         !.built = @ + got.built,
                         !.stored = now,
                         !.returned = IF got.threw THEN @ ELSE @ \cup {now}]

\* Loading DeelModule evaluates its decorator, which calls
\* DeelSDK.getInstance(); an exception there ends the process before it
\* serves any request.
LoadDeelModule ==
  /\ phase = "boot"
  /\ LET got == DeelSDKGetInstance(sdkInstance, instance, processEnv, envFile)
     IN  /\ phase' = IF got.threw THEN "crashed" ELSE "serving"
         /\ sdkInstance' = got.sdk
         /\ instance' = got.instance
         /\ processEnv' = got.env
         /\ loadedEnv' = got.env
         /\ envUse' = EnvUsed(envUse, got.lookups, got.loads, got.threw)
         /\ apiEnv' = LoadedApiEnv(apiEnv, apiFile, got.loads = 1 /\ ~(got.threw))
         /\ sdk' = SdkUsed(sdk, got, apiEnv')
  /\ UNCHANGED <<envFile, apiFile, contracts, request, response, hmacCalls, signedMessage,
                 log, nreq, refused, work, inv>>

\* The runs of handleWebhook on the requests and configurations of the
\* model, computed once.
HandleWebhookRuns ==
  [b \in 1..Len(RawBodies) |->
     Only({[h \in 1..Len(reqs) |->
              [inst \in BOOLEAN, env \in EnvValues, file \in EnvFiles |->
                 HandleWebhookRun(reqs[h], inst, env, file)]] : reqs \in {Requests[b]}})]

\* A handler with replay protection: it refuses a payload it has accepted
\* before.
HandleWebhookOnce(m, b, h) ==
  /\ phase = "serving"
  /\ nreq < MaxRequests
  /\ RouteMatches(Methods[m])
  /\ LET run == HandleWebhookRuns[b][h][instance, processEnv, envFile]
         replayed == run.end = Returned /\ \E i \in 1..Len(log) : log[i] = Requests[b][h].body
     IN  /\ request' = [Requests[b][h] EXCEPT !.method = Methods[m]]
         /\ response' = IF replayed THEN Throw("UnauthorizedException", "Replayed delivery")
                        ELSE run.end
         /\ instance' = run.instance
         /\ processEnv' = run.env
         /\ hmacCalls' = run.hmacs
         /\ signedMessage' = run.signed
         /\ log' = IF replayed THEN log ELSE log \o run.logged
         /\ work' = [lookups |-> run.lookups, key |-> run.key,
                     compares |-> run.compares, steps |-> run.steps]
         /\ envUse' = EnvUsed(envUse, run.lookups, run.loads, run.end.kind = "Error")
         /\ apiEnv' = LoadedApiEnv(apiEnv, apiFile, run.loads = 1 /\ ~(run.end.kind = "Error"))
  /\ nreq' = nreq + 1
  /\ UNCHANGED <<phase, envFile, apiFile, sdk, contracts, sdkInstance, refused, loadedEnv, inv>>

\* A handler of a controller that keeps the signing key it found when the
\* configuration was loaded, and verifies with that one.
HandleWebhookCachedKey(m, b, h) ==
  /\ phase = "serving"
  /\ nreq < MaxRequests
  /\ RouteMatches(Methods[m])
  /\ LET run == HandleWebhookRuns[b][h][instance, loadedEnv, envFile]
     IN  /\ request' = [Requests[b][h] EXCEPT !.method = Methods[m]]
         /\ response' = run.end
         /\ instance' = run.instance
         /\ hmacCalls' = run.hmacs
         /\ signedMessage' = run.signed
         /\ log' = log \o run.logged
         /\ work' = [lookups |-> run.lookups, key |-> run.key,
                     compares |-> run.compares, steps |-> run.steps]
         /\ envUse' = EnvUsed(envUse, run.lookups, run.loads, run.end.kind = "Error")
         /\ apiEnv' = LoadedApiEnv(apiEnv, apiFile, run.loads = 1 /\ ~(run.end.kind = "Error"))
  /\ nreq' = nreq + 1
  /\ UNCHANGED <<phase, envFile, apiFile, sdk, contracts,
                 processEnv, sdkInstance, refused, loadedEnv, inv>>

\* A request to deel/webhook with method Methods[m] and the header and body
\* of Requests[b][h], which the router dispatches to handleWebhook.
HandleWebhook(m, b, h) ==
  /\ phase = "serving"
  /\ nreq < MaxRequests
  /\ RouteMatches(Methods[m])
  /\ LET run == HandleWebhookRuns[b][h][instance, processEnv, envFile]
     IN  /\ request' = [Requests[b][h] EXCEPT !.method = Methods[m]]
         /\ response' = run.end
         /\ instance' = run.instance
         /\ processEnv' = run.env
         /\ hmacCalls' = run.hmacs
         /\ signedMessage' = run.signed
         /\ log' = log \o run.logged
         /\ work' = [lookups |-> run.lookups, key |-> run.key,
                     compares |-> run.compares, steps |-> run.steps]
         /\ envUse' = EnvUsed(envUse, run.lookups, run.loads, run.end.kind = "Error")
         /\ apiEnv' = LoadedApiEnv(apiEnv, apiFile, run.loads = 1 /\ ~(run.end.kind = "Error"))
  /\ nreq' = nreq + 1
  /\ UNCHANGED <<phase, envFile, apiFile, sdk, contracts, sdkInstance, refused, loadedEnv, inv>>

\* A request to deel/webhook with a method the route does not take: the
\* router answers it, and handleWebhook is not called.
NoRoute(m) ==
  /\ phase = "serving"
  /\ ~RouteMatches(Methods[m])
  /\ refused' = refused \cup {Methods[m]}
  /\ UNCHANGED <<phase, envFile, apiFile, sdk, contracts,
                 processEnv, instance, sdkInstance, request, response,
                 hmacCalls, signedMessage, log, nreq, work, loadedEnv, inv, envUse, apiEnv>>

Next ==
  \/ LoadDeelModule
  \/ \E m \in 1..Len(Methods) : \E b \in 1..Len(Requests) : \E h \in 1..Len(Requests[b]) :
       HandleWebhook(m, b, h)
  \/ \E m \in 1..Len(Methods) : NoRoute(m)

Spec == Init /\ [][Next]_vars

----------------------------------------------------------------------------
(* handleWebhook statement by statement, with several invocations in       *)
(* flight. The body of handleWebhook awaits nothing, so the Node.js event  *)
(* loop runs each invocation to its end before the next; the interleavings *)
(* below include those runs and every finer schedule.                      *)

\* The bodies and the headers of the requests handled statement by
\* statement: two different payloads, each without header, with the
\* signature under KeyA, with that signature's final digit changed and with
\* that signature cut short by one character.
StepBodies == {1, 5}
StepHeaders == {1, 4, 5, 7}

\* The keys the process can be configured with, and the place of a key
\* among them.
ConfiguredKeys == <<KeyA, KeyB>>
KeyIndex(key) == IF key = ConfiguredKeys[1] THEN 1 ELSE 2

\* The expected signatures of the bodies of the model under the keys of the
\* model, computed once.
ExpectedSignatures ==
  [b \in 1..Len(RawBodies) |->
     Only({[k \in 1..Len(ConfiguredKeys) |-> ExpectedSignature(ConfiguredKeys[k], rawBody)] :
           rawBody \in {JSONparse(RawBodies[b])}})]

\* What the holder of each key of the model signs for each body of the
\* model, computed once.
SenderSignatures ==
  [b \in 1..Len(RawBodies) |->
     Only({[k \in 1..Len(ConfiguredKeys) |-> Sign(POST, text, ConfiguredKeys[k])] :
           text \in {JSONstringify(JSONparse(RawBodies[b]))}})]

Bump(c) == IF c < MaxCount THEN c + 1 ELSE c

\* A handler that goes back to verify again after it has thrown.
AfterThrowRetry == "hmac"

\* Where an invocation is after it has thrown: at its end, since nothing in
\* the controller catches the exception and verifies again.
AfterThrow == "done"

\* A controller that keeps expectedSignature in a field that its invocations
\* share: an invocation compares with what another one has computed, if
\* there is one.
ExpectedSeenShared(i) ==
  LET others == {j \in DOMAIN inv : j # i /\ inv[j].expected # <<>>}
  IN  IF others = {} THEN inv[i].expected
      ELSE inv[CHOOSE j \in others : \A k \in others : j >= k].expected

\* The expectedSignature that the comparison of invocation i reads: the
\* const of its own call.
ExpectedSeen(i) == inv[i].expected

Ends(i, end) == [inv EXCEPT ![i].pc = AfterThrow, ![i].end = end]

StepFrame ==
  UNCHANGED <<phase, envFile, apiFile, sdk, contracts,
              sdkInstance, request, response, hmacCalls, signedMessage,
              nreq, refused, work, loadedEnv>>

\* The router calls handleWebhook with the request Requests[b][h].
Receive(i, b, h) ==
  /\ phase = "serving"
  /\ inv[i].pc = "idle"
  /\ i > 1 => inv[i - 1].pc # "idle"
  /\ inv' = [inv EXCEPT ![i] = [Idle EXCEPT !.pc = "header", !.b = b, !.h = h]]
  /\ UNCHANGED <<processEnv, instance, log, envUse, apiEnv>>
  /\ StepFrame

\* const signature = request.headers['x-deel-signature'], and the check of it.
ReadSignatureHeader(i) ==
  /\ inv[i].pc = "header"
  /\ inv' = IF SignatureMissing(Requests[inv[i].b][inv[i].h].signature)
              THEN Ends(i, Throw("UnauthorizedException", "Missing signature header"))
            ELSE [inv EXCEPT ![i].pc = "instance"]
  /\ UNCHANGED <<processEnv, instance, log, envUse, apiEnv>>
  /\ StepFrame

\* Environment.getInstance()
GetEnvironment(i) ==
  /\ inv[i].pc = "instance"
  /\ LET got == EnvironmentGetInstance(instance, processEnv, envFile)
     IN  /\ instance' = got.instance
         /\ processEnv' = got.env
         /\ envUse' = EnvUsed(envUse, 1, got.loads, got.threw)
         /\ apiEnv' = LoadedApiEnv(apiEnv, apiFile, got.loads = 1 /\ ~(got.threw))
         /\ inv' = IF got.threw
                     THEN [Ends(i, Throw("Error", "ENOENT")) EXCEPT
                             ![i].lookups = Bump(inv[i].lookups)]
                   ELSE [inv EXCEPT ![i].pc = "key", ![i].lookups = Bump(inv[i].lookups)]
  /\ UNCHANGED log
  /\ StepFrame

\* const signingKey = (...).DeelWebhookSigningKey, and the check of it.
ReadKey(i) ==
  /\ inv[i].pc = "key"
  /\ LET read == ReadSigningKey(processEnv)
     IN  /\ processEnv' = read.env
         /\ inv' = IF SigningKeyMissing(read.key)
                     THEN Ends(i, Throw("InternalServerErrorException",
                                        "Webhook signing key not configured"))
                   ELSE [inv EXCEPT ![i].pc = "hmac", ![i].signingKey = read.key]
  /\ UNCHANGED <<instance, log, envUse, apiEnv>>
  /\ StepFrame

\* const expectedSignature = crypto.createHmac(...).update(...).digest('hex')
ComputeExpected(i) ==
  /\ inv[i].pc = "hmac"
  /\ inv' = [inv EXCEPT ![i].pc = "compare",
                        ![i].hmacs = Bump(inv[i].hmacs),
                        ![i].expected =
                          ExpectedSignatures[inv[i].b][KeyIndex(inv[i].signingKey)]]
  /\ UNCHANGED <<processEnv, instance, log, envUse, apiEnv>>
  /\ StepFrame

\* const isValid = crypto.timingSafeEqual(...), the check of it, and the
\* console.log and the return that follow a match.
Compare(i) ==
  /\ inv[i].pc = "compare"
  /\ LET req == Requests[inv[i].b][inv[i].h]
         seen == ExpectedSeen(i)
         isValid == CompareSignatures(req.signature.str, seen)
         counted == [inv EXCEPT ![i].compares = Bump(inv[i].compares), ![i].seen = seen]
     IN  IF isValid.threw
           THEN /\ inv' = [counted EXCEPT
                             ![i].pc = AfterThrow,
                             ![i].end = Throw("RangeError",
                                              "Input buffers must have the same byte length")]
                /\ log' = log
         ELSE IF ~isValid.equal
           THEN /\ inv' = [counted EXCEPT
                             ![i].pc = AfterThrow,
                             ![i].end = Throw("UnauthorizedException",
                                              InvalidSignatureMessage(req.signature.str, seen))]
                /\ log' = log
         ELSE /\ inv' = [counted EXCEPT ![i].pc = "done", ![i].end = Returned]
              /\ log' = log \o ValidWebhookLog(req.body, req.signature.str)
  /\ UNCHANGED <<processEnv, instance, envUse, apiEnv>>
  /\ StepFrame

\* The next statement of invocation i.
Step(i) ==
  \/ ReadSignatureHeader(i)
  \/ GetEnvironment(i)
  \/ ReadKey(i)
  \/ ComputeExpected(i)
  \/ Compare(i)

NextSteps ==
  \/ LoadDeelModule
  \/ \E i \in 1..MaxInvocations : \E b \in StepBodies : \E h \in StepHeaders : Receive(i, b, h)
  \/ \E i \in 1..MaxInvocations : ReadSignatureHeader(i)
  \/ \E i \in 1..MaxInvocations : GetEnvironment(i)
  \/ \E i \in 1..MaxInvocations : ReadKey(i)
  \/ \E i \in 1..MaxInvocations : ComputeExpected(i)
  \/ \E i \in 1..MaxInvocations : Compare(i)

SpecSteps == Init /\ [][NextSteps]_vars

----------------------------------------------------------------------------
(* The service in a process whose environment variable                     *)
(* DEEL_WEBHOOK_SIGNING_KEY is assigned while it serves. Nothing in the    *)
(* repository assigns it; the getter reads it at every call, and this      *)
(* specification shows what a request sees after such an assignment.       *)

\* The requests delivered in this specification: the bodies of StepBodies,
\* without header or signed by the holder of either key.
RotationRequests ==
  UNION {{<<b, h>> : h \in {h \in 1..Len(Requests[b]) :
                              \/ Requests[b][h].signature = Undefined
                              \/ Requests[b][h].signature = Defined(SenderSignatures[b][1])
                              \/ Requests[b][h].signature = Defined(SenderSignatures[b][2])}} :
         b \in StepBodies}

\* process.env.DEEL_WEBHOOK_SIGNING_KEY is given the value v, or deleted.
SetSigningKey(v) ==
  /\ phase = "serving"
  /\ v # processEnv
  /\ processEnv' = v
  /\ UNCHANGED <<phase, envFile, apiFile, sdk, contracts,
                 instance, sdkInstance, request, response, hmacCalls,
                 signedMessage, log, nreq, refused, work, loadedEnv, inv, envUse, apiEnv>>

NextRotation ==
  \/ LoadDeelModule
  \/ \E m \in 1..Len(Methods) : \E r \in RotationRequests : HandleWebhook(m, r[1], r[2])
  \/ \E v \in EnvValues : SetSigningKey(v)

SpecRotation == Init /\ [][NextRotation]_vars

----------------------------------------------------------------------------
(* The Environment class under any sequence of calls: by a caller that     *)
(* only wants the instance, and by handleWebhook of a DeelController that  *)
(* is used without DeelModule having been loaded, so that its call of      *)
(* Environment.getInstance() can be the first one.                         *)

\* Some caller evaluates Environment.getInstance().
GetInstanceCall ==
  /\ envUse.calls < MaxCalls
  /\ LET got == EnvironmentGetInstance(instance, processEnv, envFile)
     IN  /\ instance' = got.instance
         /\ processEnv' = got.env
         /\ loadedEnv' = IF ~instance /\ ~got.threw THEN got.env ELSE loadedEnv
         /\ envUse' = EnvUsed(envUse, 1, got.loads, got.threw)
         /\ apiEnv' = LoadedApiEnv(apiEnv, apiFile, got.loads = 1 /\ ~(got.threw))
  /\ UNCHANGED <<phase, envFile, apiFile, sdk, contracts,
                 sdkInstance, request, response, hmacCalls, signedMessage,
                 log, nreq, refused, work, inv>>

\* handleWebhook is called with the request Requests[b][h].
HandleWebhookAlone(b, h) ==
  /\ nreq < MaxRequests
  /\ envUse.calls < MaxCalls
  /\ LET run == HandleWebhookRuns[b][h][instance, processEnv, envFile]
     IN  /\ request' = Requests[b][h]
         /\ response' = run.end
         /\ instance' = run.instance
         /\ processEnv' = run.env
         /\ loadedEnv' = IF ~instance /\ run.instance THEN run.env ELSE loadedEnv
         /\ hmacCalls' = run.hmacs
         /\ signedMessage' = run.signed
         /\ log' = log \o run.logged
         /\ work' = [lookups |-> run.lookups, key |-> run.key,
                     compares |-> run.compares, steps |-> run.steps]
         /\ envUse' = EnvUsed(envUse, run.lookups, run.loads, run.end.kind = "Error")
         /\ apiEnv' = LoadedApiEnv(apiEnv, apiFile, run.loads = 1 /\ ~(run.end.kind = "Error"))
  /\ nreq' = nreq + 1
  /\ UNCHANGED <<phase, envFile, apiFile, sdk, contracts, sdkInstance, refused, inv>>

NextEnvironment ==
  \/ GetInstanceCall
  \/ \E b \in StepBodies : \E h \in StepHeaders : HandleWebhookAlone(b, h)

SpecEnvironment == Init /\ [][NextEnvironment]_vars

----------------------------------------------------------------------------
(* DeelSDK.getInstance() on its own: any number of callers, before or      *)
(* after Environment.getInstance() has been called, with DEEL_ACCESS_TOKEN *)
(* and DEEL_API_URL set or unset in the environment and in the .env file.  *)

InitSdk ==
  /\ InitProcess
  /\ apiFile \in ApiFileValues
  /\ apiEnv \in ApiEnvValues

\* Some caller evaluates DeelSDK.getInstance().
DeelSDKGetInstanceCall ==
  /\ sdk.calls < MaxCalls
  /\ LET got == DeelSDKGetInstance(sdkInstance, instance, processEnv, envFile)
     IN  /\ sdkInstance' = got.sdk
         /\ instance' = got.instance
         /\ processEnv' = got.env
         /\ loadedEnv' = IF ~instance /\ got.instance THEN got.env ELSE loadedEnv
         /\ envUse' = EnvUsed(envUse, got.lookups, got.loads, got.threw)
         /\ apiEnv' = LoadedApiEnv(apiEnv, apiFile, got.loads = 1 /\ ~(got.threw))
         /\ sdk' = SdkUsed(sdk, got, apiEnv')
  /\ UNCHANGED <<phase, envFile, apiFile, contracts, request, response, hmacCalls,
                 signedMessage, log, nreq, refused, work, inv>>

NextSdk ==
  \/ DeelSDKGetInstanceCall
  \/ GetInstanceCall

SpecSdk == InitSdk /\ [][NextSdk]_vars

----------------------------------------------------------------------------
(* GET deel/contracts                                                      *)

NoValue == <<>>
NoError == [name |-> "", message |-> ""]

\* The promise client.getContractList() returns is fulfilled with a response
\* or rejected with an error.
Resolved(value) == [kind |-> "resolved", value |-> value, error |-> NoError]
Rejected(error) == [kind |-> "rejected", value |-> NoValue, error |-> error]

\* What the Deel API client can do when asked for the contract list: the
\* responses it is fulfilled with, and the errors it is rejected with.
SdkOutcomes ==
  { Resolved([status |-> 200, data |-> <<>>]),
    Resolved([status |-> 200, data |-> <<"contract-1", "contract-2">>]),
    Rejected([name |-> "FetchError", message |-> "Unauthorized"]),
    Rejected([name |-> "TypeError", message |-> "fetch failed"]),
    Rejected([name |-> "Error", message |-> ""]) }

\* String(error) for an Error object, as Error.prototype.toString makes it:
\* the name, and the message after ': ' unless it is empty.  A text is the
\* sequence of its parts.
ErrorToString(error) ==
  IF error.message = "" THEN <<error.name>> ELSE <<error.name, ": ", error.message>>

\* A faulty service that logs the error and goes on: its promise is
\* fulfilled with undefined.
DeelServiceGetContractsSwallowing(outcome) ==
  [threw |-> FALSE, value |-> NoValue, error |-> NoError, sdkCalls |-> 1,
   logged |-> IF outcome.kind = "resolved" THEN <<>> ELSE <<outcome.error>>]

\* DeelService.getContracts(): awaits client.getContractList() once; returns
\* what it was fulfilled with, or gives the error it was rejected with to
\* console.error and throws it again.
DeelServiceGetContracts(outcome) ==
  IF outcome.kind = "resolved"
    THEN [threw |-> FALSE, value |-> outcome.value, error |-> NoError, sdkCalls |-> 1,
          logged |-> <<>>]
    ELSE [threw |-> TRUE, value |-> NoValue, error |-> outcome.error, sdkCalls |-> 1,
          logged |-> <<outcome.error>>]

\* DeelController.getContracts(): returns what the service returns, and
\* throws InternalServerErrorException('Failed to fetch contracts: ' + error)
\* for what the service throws.
DeelControllerGetContracts(outcome) ==
  Only({[response |->
           IF got.threw
             THEN [kind |-> "InternalServerErrorException", value |-> NoValue,
                   message |-> <<"Failed to fetch contracts: ">> \o ErrorToString(got.error)]
             ELSE [kind |-> "returned", value |-> got.value, message |-> <<>>],
         sdkCalls |-> got.sdkCalls,
         logged |-> got.logged] : got \in {DeelServiceGetContracts(outcome)}})

\* A GET deel/contracts request, during which client.getContractList() does
\* outcome.
GetContracts(outcome) ==
  /\ phase = "serving"
  /\ contracts.requests < MaxContractRequests
  /\ LET run == DeelControllerGetContracts(outcome)
     IN  contracts' = [requests |-> contracts.requests + 1,
                       sdkCalls |-> contracts.sdkCalls + run.sdkCalls,
                       errors |-> contracts.errors \o run.logged,
                       outcome |-> outcome,
                       response |-> run.response]
  /\ UNCHANGED <<phase, envFile, processEnv, instance, sdkInstance, request, response,
                 hmacCalls, signedMessage, log, nreq, refused, work, loadedEnv, inv,
                 envUse, apiFile, apiEnv, sdk>>

NextContracts ==
  \/ LoadDeelModule
  \/ \E outcome \in SdkOutcomes : GetContracts(outcome)

SpecContracts == Init /\ [][NextContracts]_vars

----------------------------------------------------------------------------
(* Properties                                                              *)

\* The digest that stands for SHA-256 separates the keys and messages of the
\* model: no two different (key, message) pairs have the same HMAC.
DigestCollisionFree ==
  LET messages == UNION {{POST \o RawBodies[b], SignedMessage(JSONparse(RawBodies[b]))} :
                           b \in 1..Len(RawBodies)}
      inputs == {<<SenderKeys[k], m>> : k \in 1..Len(SenderKeys), m \in messages}
  IN  \A x \in inputs : \A y \in inputs : x # y => Hmac(x[1], x[2]) # Hmac(y[1], y[2])

\* The secret the process is configured with, and the signature the secret
\* holder computes for the body the handler was given.
Secret == DeelWebhookSigningKey(processEnv)
Handled == nreq > 0
Accepted == Handled /\ response.kind = "returned"

\* C1: the payload is handled (logged as a valid webhook) only when the
\* signature header was present, the signing secret non-empty and the header
\* equal to the expected signature; a request that is rejected leaves the
\* log as it was.
C1_TrustedOnlyAfterVerification ==
  [][nreq' = nreq + 1 =>
       /\ response'.kind = "returned" =>
            /\ Truthy(request'.signature)
            /\ DeelWebhookSigningKey(processEnv) # <<>>
            /\ request'.signature.str =
                 Sign(POST, JSONstringify(request'.body), DeelWebhookSigningKey(processEnv))
            /\ log' = Append(log, request'.body)
       /\ response'.kind # "returned" => log' = log]_vars

C1_Witness ==
  /\ Accepted
  /\ request.wire = BodyEvent
  /\ processEnv = Defined(KeyA)
  /\ log = <<request.body>>

\* C2: round trip.  Whenever the header is the lowercase hex HMAC-SHA256 of
\* the method followed by the body as sent, under the configured non-empty
\* secret, the request is accepted.
C2_RoundTrip ==
  (Handled /\ Secret # <<>> /\ request.signature = Defined(Sign(POST, request.wire, Secret)))
    => response = Returned

\* C3: a header that is the correct signature with one bit inverted is
\* rejected as an invalid signature, and ends in no other way.
C3_BitFlipRejected ==
  LET correct == Sign(POST, JSONstringify(request.body), Secret)
  IN  (Handled /\ Secret # <<>> /\ request.signature.defined
         /\ \E pos \in {1, Len(correct)} : \E k \in 0..7 :
              request.signature.str = FlipBitAt(correct, pos, k))
        => response = Throw("UnauthorizedException", "Invalid signature")

\* C4: a header whose length differs from the expected signature's, in
\* characters or in bytes, is rejected as an invalid signature, as a wrong
\* header of the right length is.
C4_LengthMismatchRejected ==
  LET expected == Sign(POST, JSONstringify(request.body), Secret)
  IN  (Handled /\ Secret # <<>> /\ Truthy(request.signature)
         /\ (\/ Len(request.signature.str) # Len(expected)
             \/ Len(BufferFrom(request.signature.str)) # Len(BufferFrom(expected))))
        => response = Throw("UnauthorizedException", "Invalid signature")

\* C5: a request without the signature header is rejected as unauthorized
\* for its missing header, whatever its body and the secret, and no HMAC is
\* computed for it.
C5_MissingHeaderRejected ==
  (Handled /\ ~request.signature.defined)
    => /\ response = Throw("UnauthorizedException", "Missing signature header")
       /\ hmacCalls = 0

C5_Witness ==
  /\ Handled
  /\ ~request.signature.defined
  /\ Secret = KeyA
  /\ request.wire = BodyCanonical

\* C6: with the signing secret unset or empty, a request that carries a
\* signature, correct or not and of any length, is rejected because the
\* signing key is not configured.
C6_SecretNotConfigured ==
  (Handled /\ Truthy(request.signature) /\ ~Truthy(processEnv))
    => response = Throw("InternalServerErrorException",
                        "Webhook signing key not configured")

C6_Witness ==
  /\ Handled
  /\ processEnv = Undefined
  /\ request.signature = Defined(Sign(POST, request.wire, KeyA))
  /\ response.kind = "InternalServerErrorException"

\* C7: no request is accepted while the signing secret is unset or empty,
\* not even one signed with the empty key.
C7_NoSilentBypass ==
  Accepted => (processEnv.defined /\ processEnv.str # <<>>)

C7_Witness ==
  /\ Handled
  /\ processEnv = Defined(<<>>)
  /\ request.signature = Defined(Sign(POST, JSONstringify(request.body), <<>>))
  /\ ~Accepted

\* C8: every invocation ends in one of four ways: accepted, or rejected for
\* a missing header, for an unconfigured secret, or for an invalid signature.
C8_FourOutcomes ==
  Handled =>
    response \in {Returned,
                  Throw("UnauthorizedException", "Missing signature header"),
                  Throw("InternalServerErrorException",
                        "Webhook signing key not configured"),
                  Throw("UnauthorizedException", "Invalid signature")}

\* C9: a missing header and a mismatching signature each end as
\* unauthorized, an absent secret as an internal server error whose reason
\* is not the mismatch reason.
C9_RejectKinds ==
  LET expected == Sign(POST, JSONstringify(request.body), Secret)
      missing == ~Truthy(request.signature)
      unconfigured == ~missing /\ Secret = <<>>
      mismatch == ~missing /\ Secret # <<>> /\ request.signature.str # expected
  IN  Handled =>
        /\ missing => response.kind = "UnauthorizedException"
        /\ mismatch => response.kind = "UnauthorizedException"
        /\ unconfigured => /\ response.kind = "InternalServerErrorException"
                           /\ response.message # "Invalid signature"

\* C10: the message that is authenticated is the method followed by the
\* body exactly as it was sent.
C10_RawBodyVerified ==
  (Handled /\ hmacCalls > 0) => signedMessage = POST \o request.wire

\* C11: the message that is authenticated is the upper-case method of the
\* request followed by the body text the handler serialises, and a request
\* is accepted exactly when its header is the lowercase hexadecimal
\* HMAC-SHA256 of that message under the signing secret.
C11_MethodPrefixedHmac ==
  LET message == ToUpperCase(request.method) \o JSONstringify(request.body)
      key == IF Truthy(processEnv) THEN processEnv.str ELSE <<>>
  IN  (Handled /\ hmacCalls > 0) =>
        /\ signedMessage = message
        /\ response = Returned <=> request.signature.str = Hex(Hmac(key, message))
        /\ \A i \in 1..Len(request.signature.str) :
             response = Returned => request.signature.str[i] \in (48..57) \cup (97..102)

C11_Witness ==
  /\ Accepted
  /\ request.method = POST
  /\ request.wire = BodyEvent
  /\ processEnv = Defined(KeyA)
  /\ signedMessage = POST \o BodyEvent

Contains(hay, needle) ==
  \E i \in 0..(Len(hay) - Len(needle)) :
    \A j \in 1..Len(needle) : hay[i + j] = needle[j]

\* C15: no line the handler writes to the log holds the signing secret, the
\* signature header or the expected signature.
C15_NoCredentialLogged ==
  [][nreq' = nreq + 1 =>
       \A i \in (Len(log) + 1)..Len(log') :
         LET line == JSONstringify(log'[i])
             key == IF Truthy(processEnv) THEN processEnv.str ELSE <<>>
         IN  /\ key # <<>> => ~Contains(line, key)
             /\ ~Contains(line, request'.signature.str)
             /\ ~Contains(line, Sign(POST, JSONstringify(request'.body), key))]_vars

C15_Witness ==
  /\ Accepted
  /\ Len(log) = 2
  /\ processEnv = Defined(KeyB)

\* C16: the reason given with a rejection is a fixed text for each class of
\* rejection, whatever the secret, the header and the expected signature.
C16_FixedReasons ==
  LET key == IF Truthy(processEnv) THEN processEnv.str ELSE <<>>
      expected == BufferFrom(Sign(POST, JSONstringify(request.body), key))
  IN  (Handled /\ response # Returned) =>
        response.message =
          IF ~Truthy(request.signature) THEN "Missing signature header"
          ELSE IF key = <<>> THEN "Webhook signing key not configured"
          ELSE IF Len(BufferFrom(request.signature.str)) # Len(expected)
            THEN "Input buffers must have the same byte length"
          ELSE "Invalid signature"

C16_Witness ==
  /\ Handled
  /\ processEnv = Defined(KeyA)
  /\ request.signature = Defined(ChangeFinalDigit(Sign(POST, request.wire, KeyA)))
  /\ response = Throw("UnauthorizedException", "Invalid signature")

\* C18: rejecting a wrong signature of the right length takes the same
\* number of comparison steps wherever the first wrong byte is: every byte
\* pair is looked at, for the all-zero signature as for a signature whose
\* last character alone is wrong.
C18_ConstantTimeComparison ==
  (Handled /\ work.compares > 0 /\ response.kind = "UnauthorizedException")
    => work.steps = 2 * DigestBytes

C18_Witness ==
  /\ Handled
  /\ request.signature = Defined(AllZero)
  /\ response = Throw("UnauthorizedException", "Invalid signature")
  /\ work.steps = 2 * DigestBytes

C20_HeaderCheckedFirst ==
  (Handled /\ request.signature = Undefined /\ ~Truthy(processEnv)) =>
    /\ response = Throw("UnauthorizedException", "Missing signature header")
    /\ work.lookups = 0
    /\ hmacCalls = 0

C20_Witness ==
  /\ Handled
  /\ request.signature = Undefined
  /\ processEnv \in {Undefined, Defined(<<>>)}
  /\ response.kind = "UnauthorizedException"
  /\ work = NoWork

\* C13: with several invocations of handleWebhook in flight, under any
\* schedule of their statements, each invocation ends as it would have
\* ended alone, and the expected signature it compares with is the one
\* computed from its own request.
C13_NoInterference ==
  \A i \in 1..MaxInvocations :
    inv[i].pc = "done" =>
      /\ inv[i].end = HandleWebhookRuns[inv[i].b][inv[i].h][instance, processEnv, envFile].end
      /\ inv[i].compares > 0 =>
           inv[i].seen = SenderSignatures[inv[i].b][KeyIndex(inv[i].signingKey)]

\* Two invocations with different payloads, the second received finishing
\* first, both accepted.
C13_Witness ==
  /\ inv[1].pc = "done" /\ inv[1].end = Returned
  /\ inv[2].pc = "done" /\ inv[2].end = Returned
  /\ inv[1].b # inv[2].b
  /\ log = <<Requests[inv[2].b][1].body, Requests[inv[1].b][1].body>>

\* The positions at which an invocation has a statement to run; each
\* statement is enabled by the position of its own invocation alone.
Statements == {"header", "instance", "key", "hmac", "compare"}

\* C19: an invocation looks the secret up at most once, computes at most
\* one HMAC and compares at most once; until it has ended it is at a
\* statement that can run whatever the other invocations do; once it has
\* ended, with whichever outcome, it does nothing more.
C19_TerminalOutcomes ==
  [][\A i \in 1..MaxInvocations :
       /\ inv'[i].lookups <= 1 /\ inv'[i].hmacs <= 1 /\ inv'[i].compares <= 1
       /\ inv'[i].pc \in Statements \cup {"idle", "done"}
       /\ inv[i].pc = "done" => inv'[i] = inv[i]]_vars

C19_Witness ==
  /\ inv[1].pc = "done"
  /\ inv[1].end = Throw("UnauthorizedException", "Invalid signature")
  /\ inv[1].lookups = 1 /\ inv[1].hmacs = 1 /\ inv[1].compares = 1
  /\ inv[2].pc = "hmac"

\* C21: a request whose signature header is the empty string ends as a
\* request without the header does: it is refused for the missing header,
\* whatever the body and the secret, before the secret is looked up and
\* before anything is compared.
C21_EmptyHeaderIsMissing ==
  (Handled /\ request.signature = Defined(<<>>)) =>
    /\ response = Throw("UnauthorizedException", "Missing signature header")
    /\ work = NoWork
    /\ hmacCalls = 0

C21_Witness ==
  /\ Handled
  /\ request.signature = Defined(<<>>)
  /\ processEnv = Defined(KeyA)
  /\ request.wire = BodyEvent
  /\ response.message = "Missing signature header"

\* C22: a header that spells the expected signature with upper-case
\* hexadecimal digits, all or some of them, is as long as the expected
\* signature and is refused as an invalid signature; an accepted header is
\* the expected signature in lower case.
C22_CaseSensitive ==
  LET key == IF Truthy(processEnv) THEN processEnv.str ELSE <<>>
      given == request.signature.str
      expected == Sign(POST, JSONstringify(request.body), key)
  IN  (Handled /\ Truthy(request.signature) /\ key # <<>>) =>
        /\ (given # expected /\ ToUpperCase(given) = ToUpperCase(expected)) =>
             /\ Len(given) = Len(expected)
             /\ response = Throw("UnauthorizedException", "Invalid signature")
        /\ response = Returned =>
             /\ given = expected
             /\ \A i \in 1..Len(given) : given[i] \notin 65..90

C22_Witness ==
  /\ Handled
  /\ processEnv = Defined(KeyA)
  /\ request.signature.str = ToUpperCase(Sign(POST, request.wire, KeyA))
  /\ request.signature.str # Sign(POST, request.wire, KeyA)
  /\ response = Throw("UnauthorizedException", "Invalid signature")

\* C23: a call of Environment.getInstance() loads the .env file exactly when
\* no instance is stored. Once a call has returned, later calls return the
\* stored instance without loading. A call whose load fails throws and
\* stores nothing, so the call after it loads again; handleWebhook making
\* such a call ends with that error, which is neither its return nor one of
\* its three rejections.
C23_LazySingleton ==
  [][envUse'.calls = envUse.calls + 1 =>
       /\ instance =>
            /\ instance'
            /\ ~envUse'.threw
            /\ envUse'.loads = envUse.loads
            /\ processEnv' = processEnv
       /\ ~instance =>
            /\ envUse'.loads = envUse.loads + 1
            /\ envUse'.threw = ~envFile.exists
            /\ instance' = envFile.exists
       /\ (envUse'.threw /\ nreq' = nreq + 1) =>
            /\ response'.kind \notin {"returned", "UnauthorizedException",
                                      "InternalServerErrorException"}
            /\ log' = log]_vars

\* A failed load, then a webhook request with a signature header whose call
\* loads again and fails again.
C23_Witness ==
  /\ envUse = [calls |-> 2, loads |-> 2, threw |-> TRUE]
  /\ ~instance
  /\ nreq = 1
  /\ Truthy(request.signature)
  /\ response = Throw("Error", "ENOENT")

\* The place of the body text wire among the bodies of the model.
BodyIndex(wire) == CHOOSE b \in 1..Len(RawBodies) : RawBodies[b] = wire

\* C24: every request is verified with the value that
\* DEEL_WEBHOOK_SIGNING_KEY has in process.env when the request is handled:
\* after the variable has changed, a header signed with the old value is
\* refused and a header signed with the new value is accepted.
C24_KeyReadAtEachRequest ==
  [][nreq' = nreq + 1 =>
       LET key == IF Truthy(processEnv) THEN processEnv.str ELSE <<>>
           given == request'.signature
       IN  (Truthy(given) /\ key # <<>>) =>
             /\ work'.key = key
             /\ response' = Returned <=>
                  given.str = SenderSignatures[BodyIndex(request'.wire)][KeyIndex(key)]
             /\ response' # Returned => response'.kind = "UnauthorizedException"]_vars

\* The key was KeyA when the configuration was loaded and is KeyB now; the
\* latest request carried the signature under KeyA and was refused, after an
\* earlier request had been accepted.
C24_Witness ==
  /\ loadedEnv = Defined(KeyA)
  /\ processEnv = Defined(KeyB)
  /\ nreq = 2
  /\ request.signature = Defined(SenderSignatures[BodyIndex(request.wire)][1])
  /\ response = Throw("UnauthorizedException", "Invalid signature")
  /\ work.key = KeyB
  /\ Len(log) = 1

\* C25: a GET deel/contracts request calls client.getContractList() once.
\* When that call is fulfilled, the request returns the very value it was
\* fulfilled with and nothing is logged; when it is rejected, the service
\* logs the error and the request ends with an InternalServerErrorException
\* whose message is 'Failed to fetch contracts: ' followed by the error, never
\* with a returned value.
C25_ContractsOrInternalError ==
  [][contracts'.requests = contracts.requests + 1 =>
       /\ contracts'.sdkCalls = contracts.sdkCalls + 1
       /\ contracts'.outcome.kind \in {"resolved", "rejected"}
       /\ contracts'.outcome.kind = "resolved" =>
            /\ contracts'.response.kind = "returned"
            /\ contracts'.response.value = contracts'.outcome.value
            /\ contracts'.errors = contracts.errors
       /\ contracts'.outcome.kind = "rejected" =>
            /\ contracts'.response.kind = "InternalServerErrorException"
            /\ contracts'.response.value = NoValue
            /\ contracts'.response.message =
                 <<"Failed to fetch contracts: ">> \o ErrorToString(contracts'.outcome.error)
            /\ contracts'.errors = Append(contracts.errors, contracts'.outcome.error)]_vars

\* A request whose SDK call was rejected after one whose call was fulfilled.
C25_Witness ==
  /\ contracts.requests = 2
  /\ contracts.sdkCalls = 2
  /\ contracts.outcome = Rejected([name |-> "FetchError", message |-> "Unauthorized"])
  /\ contracts.response.kind = "InternalServerErrorException"
  /\ contracts.response.message = <<"Failed to fetch contracts: ", "FetchError", ": ", "Unauthorized">>
  /\ contracts.errors = <<[name |-> "FetchError", message |-> "Unauthorized"]>>

\* C26: a call of DeelSDK.getInstance() that returns, returns the one DeelSDK
\* that was ever stored; deel.auth() and client.server() have then been
\* called once each, by the constructor of that DeelSDK, and a call made while
\* a DeelSDK is stored constructs and configures nothing.  auth() was given
\* DEEL_ACCESS_TOKEN, or '' when it is unset or empty, and server() was given
\* DEEL_API_URL, or 'https://api.deel.com/v1' when it is unset or empty.
C26_SdkSingletonConfiguredOnce ==
  [][sdk'.calls = sdk.calls + 1 =>
       /\ sdk'.returned \subseteq {1}
       /\ sdk'.stored \in {0, 1}
       /\ sdk.stored # 0 =>
            /\ sdk'.returned = {sdk.stored}
            /\ sdk'.built = sdk.built
            /\ sdk'.stored = sdk.stored
            /\ sdk'.auth = sdk.auth
            /\ sdk'.server = sdk.server
       /\ sdk'.stored = 0 => sdk'.returned = {} /\ sdk'.auth = <<>> /\ sdk'.server = <<>>
       /\ sdk'.stored # 0 =>
            /\ Len(sdk'.auth) = 1
            /\ Len(sdk'.server) = 1
            /\ sdk'.auth[1] = IF Truthy(apiEnv'.token) THEN apiEnv'.token.str ELSE <<>>
            /\ sdk'.server[1] = IF Truthy(apiEnv'.url) THEN apiEnv'.url.str ELSE UrlDefault
            /\ ~apiEnv'.token.defined => sdk'.auth = << <<>> >>
            /\ ~apiEnv'.url.defined => sdk'.server = <<UrlDefault>>]_vars

\* Three calls, all returning the first DeelSDK, whose client was configured
\* with the fallbacks because neither variable is set anywhere.
C26_Witness ==
  /\ sdk.calls = 3
  /\ sdk.built = 1
  /\ sdk.returned = {1}
  /\ apiEnv = NoApiSettings
  /\ sdk.auth = << <<>> >>
  /\ sdk.server = <<UrlDefault>>

====
